---- MODULE Spec2Model ----
(***************************************************************************)
(* Model of the texture family of the USSE shader translator               *)
(* (vita3k/shader/src/translator/texture.cpp): USSETranslatorVisitor::smp, *)
(* USSETranslatorVisitor::do_texture_queries and                           *)
(* USSETranslatorVisitor::do_fetch_texture; and of the break and system    *)
(* call flags of the Unicorn CPU wrapper (vita3k/cpu/src/unicorn_cpu.cpp). *)
(*                                                                         *)
(* The SPIR-V builder m_b is modelled by the stream of instructions it has *)
(* been asked to create; the stream also records, in call order, the       *)
(* calls made to the operand model (load and store).  A value handle       *)
(* (spv::Id) is a pair <<kind, n>>: the result of the n-th entry of the    *)
(* stream is <<"id", n>>.                                                  *)
(***************************************************************************)
EXTENDS Integers, Sequences, FiniteSets, TLC

VARIABLES samplers, call, ir, fetches, inst, log, ret

VARIABLES did_break, svc_called, svc, is_inside_intr_hook, uc, cpu_call,
          trapped, trigger_pc

\* the variables of the translator
tvars == <<samplers, call, ir, fetches, inst, log, ret>>

\* the variables of the CPU wrapper
cpuvars == <<did_break, svc_called, svc, is_inside_intr_hook, uc, cpu_call,
             trapped, trigger_pc>>

vars == <<samplers, call, ir, fetches, inst, log, ret, did_break,
          svc_called, svc, is_inside_intr_hook, uc, cpu_call, trapped,
          trigger_pc>>

----------------------------------------------------------------------------
(* Bounds of the model *)

\* the sampler table binds resource indices in 0..MaxSamplerIndex
MaxSamplerIndex == 0
\* a texture query list holds at most MaxQueries records
MaxQueries == 2

----------------------------------------------------------------------------
(* Value handles *)

\* spv::NoResult
NoResult == <<"NoResult", 0>>

ResultId(n) == <<"id", n>>

\* m_b.makeFloatConstant(0.0f)
FloatConstantZero == <<"fconst", 0>>

\* m_b.makeIntConstant(0)
IntConstantZero == <<"iconst", 0>>

\* a literal operand word of an instruction (a shuffle component)
Literal(n) == <<"lit", n>>

\* the variable a binding of the sampler table refers to
SamplerVar(k) == <<"sampler", k>>

\* the variable holding the coordinate of a non dependent texture query
CoordVar(k) == <<"var", k>>

----------------------------------------------------------------------------
(* Types *)

IntegerDataTypes == {"INT8", "INT16", "INT32", "UINT8", "UINT16", "UINT32"}

is_integer_data_type(t) == t \in IntegerDataTypes

\* component types a sampler binding is declared with in the model
SamplerComponentTypes == {"F32", "UINT8", "UNK"}

\* component counts a sampler binding is declared with (of 1..4)
SamplerComponentCounts == {3, 4}

SamplerKeys == 0..MaxSamplerIndex

SamplerInfos(k) ==
    [id : {SamplerVar(k)}, component_type : SamplerComponentTypes,
     component_count : SamplerComponentCounts]

\* the sampler tables: partial maps from resource index to SamplerInfo
SamplerTables ==
    UNION { {t \in [D -> UNION {SamplerInfos(k) : k \in D}] :
                \A k \in D : t[k].id = SamplerVar(k)} :
            D \in SUBSET SamplerKeys }

----------------------------------------------------------------------------
(* The SPIR-V builder and the operand model *)

\* A statement of the code that assigns a local: v is evaluated once and
\* the rest of the function, F, goes on with its value
Bind(v, F(_)) == CHOOSE r \in {F(x) : x \in {v}} : TRUE

\* spv::Builder::createOp, createLoad, createCompositeConstruct: append one
\* instruction to the stream; its result is the next fresh id
createOp(b, opcode, ncomp, args) ==
    Append(b, [op |-> opcode, ncomp |-> ncomp, args |-> args,
               res |-> ResultId(Len(b) + 1)])

createLoad(b, ptr) == createOp(b, "OpLoad", 0, <<ptr>>)

LastId(b) == b[Len(b)].res

\* spv::Builder::setLine: the builder is told the line the instructions
\* that follow come from; the call is one more entry of the stream, with
\* no result
setLine(b, line) ==
    Append(b, [op |-> "setLine", line |-> line, res |-> NoResult])

isPointer(v) == v[1] = "var"

getNumComponents(b, v) == b[v[2]].ncomp

\* USSETranslatorVisitor::load: a call to the operand model.  Whether the
\* bank/index combination is valid is decided outside this file: ok is
\* the outcome, and a failed load returns spv::NoResult
load(b, opr, mask, offset, ok) ==
    Append(b, [op |-> "load", opr |-> opr, mask |-> mask, offset |-> offset,
               res |-> IF ok THEN ResultId(Len(b) + 1) ELSE NoResult])

\* USSETranslatorVisitor::store
store(b, opr, value, mask) ==
    Append(b, [op |-> "store", opr |-> opr, value |-> value, mask |-> mask,
               res |-> NoResult])

\* utils::unpack_one: unpack a 32 bit word into floats of the given type
UnpackComponents(type) ==
    IF type = "F16" THEN 2 ELSE IF type = "C10" THEN 3 ELSE 4

unpack_one(b, v, type) ==
    createOp(b, "unpack_one", UnpackComponents(type), <<v>>)

\* utils::convert_to_int
convert_to_int(b, v, type) ==
    Append(b, [op |-> "convert_to_int", ncomp |-> 4, args |-> <<v>>,
               type |-> type, res |-> ResultId(Len(b) + 1)])

\* decode_src0 and decode_src12 resolve the bank and the register number
\* of a source operand
decode_src0(n, bank, ext) ==
    [bank |-> <<"src0", bank, ext>>, num |-> n, type |-> "F32",
     swizzle |-> "xyzw"]

decode_src12(n, bank, ext) ==
    [bank |-> <<"src12", bank, ext>>, num |-> n, type |-> "F32",
     swizzle |-> "xyzw"]

SamplingOps == {"OpImageSampleImplicitLod", "OpImageSampleProjImplicitLod",
                "OpImageSampleExplicitLod"}

----------------------------------------------------------------------------
(* USSETranslatorVisitor::do_fetch_texture *)

\* lines 37-45: a coordinate that is not F32 is read, unpacked and cut to
\* its first two components
UnpackCoord(b, coord) ==
    Bind(createLoad(b, coord.first), LAMBDA b1 :
    Bind(createOp(b1, "OpVectorExtractDynamic", 1,
                  <<LastId(b1), IntConstantZero>>), LAMBDA b2 :
    Bind(unpack_one(b2, LastId(b2), coord.second), LAMBDA b3 :
        IF getNumComponents(b3, LastId(b3)) > 2
        THEN createOp(b3, "OpVectorShuffle", 2,
                      <<LastId(b3), LastId(b3), Literal(0), Literal(1)>>)
        ELSE b3)))

ImageOperandsLodMask == <<"ImageOperandsLodMask", 0>>
ImageOperandsGradMask == <<"ImageOperandsGradMask", 0>>

\* lines 53-66: the sampling instruction chosen from (extra1, lod_mode);
\* the stream is returned unchanged when no case applies
EmitSample(b, tex, coord_id, lod_mode, extra1, extra2) ==
    IF extra1 = NoResult
    THEN IF lod_mode = 4
         THEN Bind(createLoad(b, tex), LAMBDA bl :
                  createOp(bl, "OpImageSampleProjImplicitLod", 4,
                           <<LastId(bl), coord_id>>))
         ELSE Bind(createLoad(b, tex), LAMBDA bl :
                  createOp(bl, "OpImageSampleImplicitLod", 4,
                           <<LastId(bl), coord_id>>))
    ELSE IF lod_mode = 2
         THEN Bind(createLoad(b, tex), LAMBDA bl :
                  createOp(bl, "OpImageSampleExplicitLod", 4,
                           <<LastId(bl), coord_id, ImageOperandsLodMask,
                             extra1>>))
         ELSE IF lod_mode = 3
              THEN Bind(createLoad(b, tex), LAMBDA bl :
                       createOp(bl, "OpImageSampleExplicitLod", 4,
                                <<LastId(bl), coord_id, ImageOperandsGradMask,
                                  extra1, extra2>>))
              ELSE b

\* lines 68-71: the value returned, converted when dest_type is an integer
\* type.  b2 is the stream before the sampling instruction, b3 after it
FetchResult(b2, b3, tex, coord_id, dest_type, lod_mode, extra1, extra2) ==
    Bind(IF Len(b3) > Len(b2) THEN LastId(b3) ELSE NoResult,
         LAMBDA image_sample :
    Bind(IF is_integer_data_type(dest_type)
         THEN convert_to_int(b3, image_sample, dest_type)
         ELSE b3, LAMBDA b4 :
        [b |-> b4,
         result |-> IF is_integer_data_type(dest_type) THEN LastId(b4)
                    ELSE image_sample,
         args |-> [tex |-> tex, coord_id |-> coord_id, dest_type |-> dest_type,
                   lod_mode |-> lod_mode, extra1 |-> extra1,
                   extra2 |-> extra2, sample |-> image_sample]]))

\* the whole function: the stream after the call, the value returned and
\* a record of the call
do_fetch_texture(b, tex, coord, dest_type, lod_mode, extra1, extra2) ==
    Bind(IF coord.second # "F32" THEN UnpackCoord(b, coord) ELSE b,
         LAMBDA b1 :
    Bind(IF coord.second # "F32" THEN LastId(b1) ELSE coord.first,
         LAMBDA id1 :
    Bind(IF isPointer(id1) THEN createLoad(b1, id1) ELSE b1, LAMBDA b2 :
    Bind(IF isPointer(id1) THEN LastId(b2) ELSE id1, LAMBDA coord_id :
    Bind(EmitSample(b2, tex, coord_id, lod_mode, extra1, extra2), LAMBDA b3 :
        FetchResult(b2, b3, tex, coord_id, dest_type, lod_mode, extra1,
                    extra2))))))

----------------------------------------------------------------------------
(* USSETranslatorVisitor::smp *)

\* RegisterBank values of the destination operands
PRIMATTR == <<"PRIMATTR">>
TEMP == <<"TEMP">>

SWIZZLE_CHANNEL_4_DEFAULT == "xyzw"

LodModeSupported_BiasAccepted(lod_mode) == lod_mode \in 0..3

\* line 129: the LOD modes none, replace and gradient are translated
LodModeSupported(lod_mode) == lod_mode = 0 \/ lod_mode = 2 \/ lod_mode = 3

\* line 137
Src0Type(src0_type) ==
    IF src0_type = 0 THEN "F32" ELSE IF src0_type = 1 THEN "F16" ELSE "C10"

\* line 145: m_spirv_params.samplers.count(inst.opr.src1.num)
SamplerBound(tbl, num) == num \in DOMAIN tbl

\* lines 152-157
tb_dest_fmt == <<"F32", "UNK", "F16", "F32">>

\* lines 162-165: the element type of the destination
ResolveDestType(fconv_type, sampler) ==
    IF tb_dest_fmt[fconv_type + 1] = "UNK" THEN sampler.component_type
    ELSE tb_dest_fmt[fconv_type + 1]

coord_mask_LineForgotten(dim) == IF dim = 3 THEN 7 ELSE 3

\* lines 170-175: dim is the dimensionality in base 1
coord_mask(dim) == IF dim = 3 THEN 7 ELSE IF dim = 1 THEN 1 ELSE 3

CoordNotLoaded_Unchecked(coord) == FALSE

\* line 186
CoordNotLoaded(coord) == coord = NoResult

ExtraLoads_SameSlice(b, lod_mode, dim, src2, ok1, ok2) ==
    IF lod_mode = 0 THEN [b |-> b, extra1 |-> NoResult, extra2 |-> NoResult]
    ELSE IF lod_mode = 2
    THEN Bind(load(b, src2, 1, 0, ok1), LAMBDA b1 :
            [b |-> b1, extra1 |-> b1[Len(b1)].res, extra2 |-> NoResult])
    ELSE IF lod_mode = 3 /\ dim = 2
    THEN Bind(load(b, src2, 3, 0, ok1), LAMBDA b1 :
         Bind(load(b1, src2, 12, 0, ok2), LAMBDA b2 :
            [b |-> b2, extra1 |-> b1[Len(b1)].res,
             extra2 |-> b2[Len(b2)].res]))
    ELSE IF lod_mode = 3 /\ dim = 3
    THEN Bind(load(b, src2, 7, 0, ok1), LAMBDA b1 :
         Bind(load(b1, src2, 7, 0, ok2), LAMBDA b2 :
            [b |-> b2, extra1 |-> b1[Len(b1)].res,
             extra2 |-> b2[Len(b2)].res]))
    ELSE [b |-> b, extra1 |-> NoResult, extra2 |-> NoResult]

\* lines 202-226: decode source 2 and load the LOD or the gradients.
\* ok1 and ok2 are the outcomes of the first and the second load
ExtraLoads(b, lod_mode, dim, src2, ok1, ok2) ==
    IF lod_mode = 0 THEN [b |-> b, extra1 |-> NoResult, extra2 |-> NoResult]
    ELSE IF lod_mode = 2
    THEN Bind(load(b, src2, 1, 0, ok1), LAMBDA b1 :
            [b |-> b1, extra1 |-> b1[Len(b1)].res, extra2 |-> NoResult])
    ELSE IF lod_mode = 3 /\ dim = 2
    THEN Bind(load(b, src2, 3, 0, ok1), LAMBDA b1 :
         Bind(load(b1, src2, 12, 0, ok2), LAMBDA b2 :
            [b |-> b2, extra1 |-> b1[Len(b1)].res,
             extra2 |-> b2[Len(b2)].res]))
    ELSE IF lod_mode = 3 /\ dim = 3
    THEN Bind(load(b, src2, 7, 0, ok1), LAMBDA b1 :
         Bind(load(b1, src2, 7, 1, ok2), LAMBDA b2 :
            [b |-> b2, extra1 |-> b1[Len(b1)].res,
             extra2 |-> b2[Len(b2)].res]))
    ELSE [b |-> b, extra1 |-> NoResult, extra2 |-> NoResult]

\* line 230: Imm4 dest_mask = (1U << component_count) - 1, cut to the 8
\* bits of an Imm4 (the shift itself does not wrap below 32)
dest_mask(component_count) ==
    ((2 ^ component_count) - 1) % 256

SidebandStores_Mode3Dropped(sb_mode) == sb_mode = 0 \/ sb_mode = 1

\* lines 231-245: the sideband mode decides whether the result is stored
SidebandStores(sb_mode) == sb_mode = 0 \/ sb_mode = 1 \/ sb_mode = 3

\* lines 228-247: fetch, then store as the sideband mode says
SmpFetchAndStore(f, sampler, dest, opr, b, coord, extra1, extra2) ==
    Bind(do_fetch_texture(b, sampler.id, [first |-> coord, second |-> "F32"],
                          "F32", f.lod_mode, extra1, extra2), LAMBDA fr :
        [b |-> IF SidebandStores(f.sb_mode)
               THEN store(fr.b, dest, fr.result,
                          dest_mask(sampler.component_count))
               ELSE fr.b,
         fetches |-> <<fr.args>>,
         inst |-> opr,
         log |-> IF SidebandStores(f.sb_mode) THEN <<>>
                 ELSE <<"Unsupported sb_mode">>,
         ret |-> "true"])

\* lines 150-247, once the sampler is known to be bound; ok holds the
\* outcomes of the loads, cur_pc is m_recompiler.cur_pc
SmpEmit(tbl, f, src0, src1, ok, cur_pc) ==
    Bind(tbl[src1.num], LAMBDA sampler :
    Bind([bank |-> IF f.dest_use_pa THEN PRIMATTR ELSE TEMP,
          num |-> f.dest_n,
          type |-> ResolveDestType(f.fconv_type, sampler),
          swizzle |-> SWIZZLE_CHANNEL_4_DEFAULT], LAMBDA dest :
    Bind(setLine(<<>>, cur_pc), LAMBDA b0 :
    Bind(load(b0, src0, coord_mask(f.dim + 1), 0, ok[1]), LAMBDA b1 :
        IF CoordNotLoaded(LastId(b1))
        THEN [b |-> b1, fetches |-> <<>>,
              inst |-> [dest |-> dest, src0 |-> src0, src1 |-> src1],
              log |-> <<"Coord not loaded">>, ret |-> "false"]
        ELSE
    Bind(IF f.dim + 1 = 1
         THEN createOp(b1, "OpCompositeConstruct", 2,
                       <<LastId(b1), FloatConstantZero>>)
         ELSE b1, LAMBDA b2 :
    Bind(IF f.dim + 1 = 1 THEN LastId(b2) ELSE LastId(b1), LAMBDA coord :
    Bind([decode_src12(f.src2_n, f.src2_bank, f.src2_ext)
              EXCEPT !.type = src0.type], LAMBDA src2 :
    Bind(ExtraLoads(b2, f.lod_mode, IF f.dim + 1 = 1 THEN 2 ELSE f.dim + 1,
                    src2, ok[2], ok[3]), LAMBDA ex :
        SmpFetchAndStore(f, sampler, dest,
                         IF f.lod_mode # 0
                         THEN [dest |-> dest, src0 |-> src0, src1 |-> src1,
                               src2 |-> src2]
                         ELSE [dest |-> dest, src0 |-> src0, src1 |-> src1],
                         ex.b, coord, ex.extra1, ex.extra2)))))))))

SamplerNotFound_ReturnsFalse(src0, src1) ==
    [b |-> <<>>, fetches |-> <<>>, inst |-> [src0 |-> src0, src1 |-> src1],
     log |-> <<"Can't get the sampler (sampler doesn't exist!)">>,
     ret |-> "false"]

\* lines 146-147: the sampler is not in the table
SamplerNotFound(src0, src1) ==
    [b |-> <<>>, fetches |-> <<>>, inst |-> [src0 |-> src0, src1 |-> src1],
     log |-> <<"Can't get the sampler (sampler doesn't exist!)">>,
     ret |-> "true"]

\* the whole handler; ok holds the outcomes of the three loads it may
\* make, cur_pc is m_recompiler.cur_pc
smp(tbl, f, ok, cur_pc) ==
    IF ~LodModeSupported(f.lod_mode)
    THEN [b |-> <<>>, fetches |-> <<>>, inst |-> <<>>,
          log |-> <<"Sampler LOD replace not implemented!">>, ret |-> "true"]
    ELSE
    Bind([decode_src0(f.src0_n, f.src0_bank, f.src0_ext)
              EXCEPT !.type = Src0Type(f.src0_type)], LAMBDA src0 :
    Bind(decode_src12(f.src1_n, f.src1_bank, f.src1_ext), LAMBDA src1 :
        IF ~SamplerBound(tbl, src1.num)
        THEN SamplerNotFound(src0, src1)
        ELSE SmpEmit(tbl, f, src0, src1, ok, cur_pc)))

----------------------------------------------------------------------------
(* USSETranslatorVisitor::do_texture_queries *)

StoreType_HintIgnored(q) == q.store_type

\* lines 80-84: the element type of the store operand
StoreType(q) ==
    IF q.store_type = "UNK" THEN q.component_type ELSE q.store_type

\* lines 86-93: the coordinate of a projective query is rebuilt from the
\* loaded coordinate and the component prod_pos
QueryCoord(b, q) ==
    IF q.prod_pos >= 0
    THEN Bind(createLoad(b, q.coord.first), LAMBDA b1 :
         Bind(createOp(b1, "OpVectorShuffle", 3,
                       <<LastId(b1), LastId(b1), Literal(0), Literal(1),
                         Literal(q.prod_pos)>>), LAMBDA b2 :
            [b |-> b2, coord |-> [first |-> LastId(b2),
                                  second |-> q.coord.second]]))
    ELSE [b |-> b, coord |-> q.coord]

QueryStep_LodOperand(st, q) ==
    Bind([bank |-> PRIMATTR, num |-> q.dest_offset, type |-> StoreType(q),
          swizzle |-> SWIZZLE_CHANNEL_4_DEFAULT], LAMBDA store_op :
    Bind(QueryCoord(st.b, q), LAMBDA qc :
    Bind(do_fetch_texture(qc.b, q.sampler, qc.coord, store_op.type,
                          IF q.prod_pos >= 0 THEN 4 ELSE 0,
                          Literal(1), NoResult), LAMBDA fr :
        [b |-> store(fr.b, store_op, fr.result,
                     dest_mask(q.component_count)),
         fetches |-> Append(st.fetches, fr.args)])))

\* lines 80-100: one iteration of the loop
QueryStep(st, q) ==
    Bind([bank |-> PRIMATTR, num |-> q.dest_offset, type |-> StoreType(q),
          swizzle |-> SWIZZLE_CHANNEL_4_DEFAULT], LAMBDA store_op :
    Bind(QueryCoord(st.b, q), LAMBDA qc :
    Bind(do_fetch_texture(qc.b, q.sampler, qc.coord, store_op.type,
                          IF q.prod_pos >= 0 THEN 4 ELSE 0,
                          NoResult, NoResult), LAMBDA fr :
        [b |-> store(fr.b, store_op, fr.result,
                     dest_mask(q.component_count)),
         fetches |-> Append(st.fetches, fr.args)])))

RECURSIVE QueryLoop(_, _)
QueryLoop(st, qs) ==
    IF qs = <<>> THEN st
    ELSE Bind(QueryStep(st, Head(qs)), LAMBDA st1 :
             QueryLoop(st1, Tail(qs)))

\* the whole handler
do_texture_queries(texture_queries) ==
    QueryLoop([b |-> <<>>, fetches |-> <<>>], texture_queries)

----------------------------------------------------------------------------
(* Inputs *)

\* the register numbers and bank selectors the handler only hands on to
\* the operand decoders
\* source 1 names a sampler: every index that may be bound, and one that
\* never is
Src1Regs == 0..(MaxSamplerIndex + 1)
Src0Regs == {1}
Src2Regs == {2}
DestRegs == {3}
BankSelectors == {0}
BankExtensions == {0}
Src0TypeCodes == {0, 1}

SmpFields ==
    [fconv_type : 0..3, dim : 0..3, lod_mode : 0..3, sb_mode : 0..3,
     dest_use_pa : BOOLEAN, src0_type : Src0TypeCodes,
     src0_bank : BankSelectors, src1_bank : BankSelectors,
     src2_bank : BankSelectors, src0_ext : BankExtensions,
     src1_ext : BankExtensions, src2_ext : BankExtensions,
     dest_n : DestRegs, src0_n : Src0Regs, src1_n : Src1Regs,
     src2_n : Src2Regs]

LoadOutcomes == [1..3 -> BOOLEAN]

\* the values of m_recompiler.cur_pc when smp is called
CurPcs == {0, 40}

\* the fields of a non dependent texture query: the hint differs from every
\* store type, so that a store typed by the hint is told from the others
QueryStoreTypes == {"F32", "UNK"}
QueryComponentTypes == {"UINT8"}
QueryCoordTypes == {"F32"}
QueryProdPos == {-1, 2}
QueryDestOffsets == {0, 4}
QueryComponentCounts == {2, 4}

TextureQueryInfos ==
    [sampler : {SamplerVar(0)},
     coord : [first : {CoordVar(0)}, second : QueryCoordTypes],
     store_type : QueryStoreTypes, component_type : QueryComponentTypes,
     prod_pos : QueryProdPos, dest_offset : QueryDestOffsets,
     component_count : QueryComponentCounts]

TextureQueryLists == UNION {[1..n -> TextureQueryInfos] : n \in 0..MaxQueries}

----------------------------------------------------------------------------
(* UnicornCPU (vita3k/cpu/src/unicorn_cpu.cpp)                             *)

\* The fields of the wrapper are did_break, is_inside_intr_hook and, in the
\* CPUState it belongs to, svc_called and svc.  uc is what the wrapper
\* relies on of the Unicorn engine: whether uc_emu_start is under way,
\* whether uc_emu_stop was asked for, the instruction count it was started
\* with (0: no limit) and the instructions executed against that count.
\* cpu_call is the call of the wrapper under way and where it stands:
\* "emulating" inside uc_emu_start, "intr_hook" inside the interrupt hook,
\* "returned" once it has returned (and before the first call), "aborted"
\* when an assert has ended the process.  trapped is the history of the
\* call under way: the interrupts trapped and the trigger_breakpoint calls
\* made since it began, with the immediate of the SVC instruction trapped.
\* trigger_breakpoint() and stop() take no lock and are called from other
\* threads than the one in run(): trigger_pc is where a thread inside
\* trigger_breakpoint() stands, "stopped" between its two statements.

\* a call gives execute_instructions_no_check at most MaxInstructions
MaxInstructions == 2
\* each byte of the immediate of an SVC instruction is in 0..MaxSvcImm
MaxSvcImm == 1

\* lines 89-90
INT_SVC == 2
INT_BKPT == 7

\* the exceptions the engine reports to the hook: SVC, BKPT, and one the
\* hook is not written for
Interrupts == {1, INT_SVC, INT_BKPT}

\* A 32 bit word read from guest memory, as its two halfwords: lo at the
\* address read, hi two bytes above.
NoWord == [lo |-> 0, hi |-> 0]

\* the immediates an SVC instruction can carry: 24 bits in ARM state, 8
\* bits in Thumb state
SvcImmediates(thumb) ==
    IF thumb THEN 0..MaxSvcImm
    ELSE {l + 65536 * h : l \in 0..MaxSvcImm, h \in 0..MaxSvcImm}

\* the halfword before a Thumb SVC instruction: any instruction
PrevHalfwords == {0, 48896}

\* lines 100-102: the word read at pc - 4 when the hook runs, pc being the
\* address after the SVC instruction.  ARM: cond 1111 imm24 (0xEF000000 |
\* imm24).  Thumb: the 16 bit instruction 0xDF00 | imm8 is the upper
\* halfword of the word, the instruction before it the lower one.
SvcInstruction(thumb, imm, prev) ==
    IF thumb THEN [lo |-> prev, hi |-> 57088 + imm]
    ELSE [lo |-> imm % 65536, hi |-> 61184 + (imm \div 65536)]

\* line 104: (svc_instruction & 0xff0000) >> 16 in Thumb state,
\* svc_instruction & 0xffffff in ARM state
svc_number(thumb, svc_instruction) ==
    IF thumb THEN svc_instruction.hi % 256
    ELSE (svc_instruction.hi % 256) * 65536 + svc_instruction.lo

\* uc_emu_start(uc, pc, until, 0, count), lines 184, 210 and 244
uc_emu_start(count) ==
    [running |-> TRUE, stop_request |-> FALSE, count |-> count,
     executed |-> 0]

\* lines 261-265: UnicornCPU::stop, uc_emu_stop; no effect on an engine
\* that is not emulating
stop(u) == IF u.running THEN [u EXCEPT !.stop_request = TRUE] ELSE u

\* the engine executes the next guest instruction: it was not asked to
\* stop and the count it was started with is not used up
EmulationGoesOn ==
    /\ uc.running
    /\ ~uc.stop_request
    /\ uc.count = 0 \/ uc.executed < uc.count

\* uc_emu_start returns: on an error, when it was asked to stop, or when
\* the count is used up
EmulationOver(err) ==
    \/ err
    \/ uc.stop_request
    \/ uc.count > 0 /\ uc.executed = uc.count

\* one more instruction executed against the count
Executed(u) == IF u.count > 0 THEN [u EXCEPT !.executed = @ + 1] ELSE u

NoTrap == [bkpt |-> FALSE, trigger |-> FALSE, svc |-> FALSE, imm |-> 0]

\* the position of a call that has just started the engine
Entered(fn) ==
    [fn |-> fn, at |-> "emulating", ret |-> 0, intno |-> 0,
     thumb |-> FALSE, word |-> NoWord]

Emulating == cpu_call.at = "emulating"

Returned == cpu_call.at = "returned"

\* lines 448-451
hit_breakpoint == did_break

\* lines 144-172: the wrapper after construction, no call made yet
CpuInit ==
    /\ did_break = FALSE
    /\ svc_called = FALSE
    /\ svc = 0
    /\ is_inside_intr_hook = FALSE
    /\ uc = [running |-> FALSE, stop_request |-> FALSE, count |-> 0,
             executed |-> 0]
    /\ cpu_call = [fn |-> "none", at |-> "returned", ret |-> 0, intno |-> 0,
                   thumb |-> FALSE, word |-> NoWord]
    /\ trapped = NoTrap
    /\ trigger_pc = "none"

\* lines 195-210: run() up to the start of the emulation
Run ==
    /\ Returned
    /\ did_break' = FALSE
    /\ svc_called' = FALSE
    /\ uc' = uc_emu_start(0)
    /\ cpu_call' = Entered("run")
    /\ trapped' = NoTrap
    /\ UNCHANGED <<svc, is_inside_intr_hook, tvars, trigger_pc>>

\* lines 211-226: uc_emu_start has returned, run() returns -1 on an error
\* and else whether the pc is at the halt instruction
RunReturn ==
    /\ Emulating
    /\ cpu_call.fn = "run"
    /\ \E err \in BOOLEAN, halt \in {0, 1} :
        /\ EmulationOver(err)
        /\ cpu_call' = [cpu_call EXCEPT !.at = "returned",
                                        !.ret = IF err THEN -1 ELSE halt]
    /\ uc' = [uc EXCEPT !.running = FALSE]
    /\ UNCHANGED <<did_break, svc_called, svc, is_inside_intr_hook, trapped,
                   tvars, trigger_pc>>

\* lines 228-244: step() up to the start of the emulation of one
\* instruction
Step ==
    /\ Returned
    /\ did_break' = FALSE
    /\ svc_called' = FALSE
    /\ uc' = uc_emu_start(1)
    /\ cpu_call' = Entered("step")
    /\ trapped' = NoTrap
    /\ UNCHANGED <<svc, is_inside_intr_hook, tvars, trigger_pc>>

\* lines 246-259
StepReturn ==
    /\ Emulating
    /\ cpu_call.fn = "step"
    /\ \E err \in BOOLEAN, halt \in {0, 1} :
        /\ EmulationOver(err)
        /\ cpu_call' = [cpu_call EXCEPT !.at = "returned",
                                        !.ret = IF err THEN -1 ELSE halt]
    /\ uc' = [uc EXCEPT !.running = FALSE]
    /\ UNCHANGED <<did_break, svc_called, svc, is_inside_intr_hook, trapped,
                   tvars, trigger_pc>>

\* lines 174-184: execute_instructions_no_check(num) starts the engine
\* and leaves the flags as they are
ExecuteInstructionsNoCheck ==
    /\ Returned
    /\ \E num \in 1..MaxInstructions : uc' = uc_emu_start(num)
    /\ cpu_call' = Entered("execute_instructions_no_check")
    /\ trapped' = NoTrap
    /\ UNCHANGED <<did_break, svc_called, svc, is_inside_intr_hook, tvars,
                   trigger_pc>>

\* lines 186-193
ExecuteInstructionsNoCheckReturn ==
    /\ Emulating
    /\ cpu_call.fn = "execute_instructions_no_check"
    /\ \E err \in BOOLEAN :
        /\ EmulationOver(err)
        /\ cpu_call' = [cpu_call EXCEPT !.at = "returned",
                                        !.ret = IF err THEN -1 ELSE 0]
    /\ uc' = [uc EXCEPT !.running = FALSE]
    /\ UNCHANGED <<did_break, svc_called, svc, is_inside_intr_hook, trapped,
                   tvars, trigger_pc>>

\* the engine executes a guest instruction that raises no exception
GuestInstruction ==
    /\ Emulating
    /\ EmulationGoesOn
    /\ uc' = Executed(uc)
    /\ UNCHANGED <<did_break, svc_called, svc, is_inside_intr_hook, cpu_call,
                   trapped, tvars, trigger_pc>>

\* lines 92-97: a guest instruction raises exception intno and the engine
\* calls the hook.  The assert of line 94 ends the process in a build that
\* keeps asserts; the word is the one an SVC instruction leaves at pc - 4
IntrHookEnter ==
    /\ Emulating
    /\ EmulationGoesOn
    /\ \E intno \in Interrupts, asserts \in BOOLEAN :
        IF asserts /\ intno # INT_SVC /\ intno # INT_BKPT
        THEN /\ cpu_call' = [cpu_call EXCEPT !.at = "aborted"]
             /\ uc' = Executed(uc)
             /\ UNCHANGED <<is_inside_intr_hook, trapped>>
        ELSE /\ is_inside_intr_hook' = TRUE
             /\ uc' = Executed(uc)
             /\ IF intno = INT_SVC
                THEN \E thumb \in BOOLEAN :
                     \E imm \in SvcImmediates(thumb), prev \in PrevHalfwords :
                        /\ cpu_call' =
                            [cpu_call EXCEPT
                                !.at = "intr_hook", !.intno = intno,
                                !.thumb = thumb,
                                !.word = SvcInstruction(thumb, imm, prev)]
                        /\ trapped' = [trapped EXCEPT !.svc = TRUE,
                                                      !.imm = imm]
                ELSE /\ cpu_call' = [cpu_call EXCEPT !.at = "intr_hook",
                                                     !.intno = intno]
                     /\ trapped' = [trapped EXCEPT
                                       !.bkpt = @ \/ intno = INT_BKPT]
    /\ UNCHANGED <<did_break, svc_called, svc, tvars, trigger_pc>>

\* lines 98-113: the rest of the hook.  A build that keeps asserts ends
\* the process at line 99 when the SVC was trapped in Thumb state
IntrHookBody ==
    /\ cpu_call.at = "intr_hook"
    /\ \E asserts \in BOOLEAN :
        IF asserts /\ cpu_call.intno = INT_SVC /\ cpu_call.thumb
        THEN /\ cpu_call' = [cpu_call EXCEPT !.at = "aborted"]
             /\ UNCHANGED <<did_break, svc_called, svc, is_inside_intr_hook,
                            uc>>
        ELSE /\ IF cpu_call.intno = INT_SVC
                THEN /\ svc_called' = TRUE
                     /\ svc' = svc_number(cpu_call.thumb, cpu_call.word)
                     /\ uc' = stop(uc)
                     /\ UNCHANGED did_break
                ELSE IF cpu_call.intno = INT_BKPT
                THEN /\ uc' = stop(uc)
                     /\ did_break' = TRUE
                     /\ UNCHANGED <<svc_called, svc>>
                ELSE UNCHANGED <<did_break, svc_called, svc, uc>>
             /\ is_inside_intr_hook' = FALSE
             /\ cpu_call' = [cpu_call EXCEPT !.at = "emulating", !.intno = 0,
                                             !.thumb = FALSE,
                                             !.word = NoWord]
    /\ UNCHANGED <<trapped, tvars, trigger_pc>>

\* lines 453-455: trigger_breakpoint() up to the return of stop(); called
\* between two calls or while one is under way
TriggerBreakpoint ==
    /\ cpu_call.at # "aborted"
    /\ trigger_pc = "none"
    /\ uc' = stop(uc)
    /\ trigger_pc' = "stopped"
    /\ trapped' = IF Returned THEN trapped
                  ELSE [trapped EXCEPT !.trigger = TRUE]
    /\ UNCHANGED <<did_break, svc_called, svc, is_inside_intr_hook, cpu_call,
                   tvars>>

\* lines 456-457: the second statement of trigger_breakpoint()
TriggerBreakpointReturn ==
    /\ cpu_call.at # "aborted"
    /\ trigger_pc = "stopped"
    /\ did_break' = TRUE
    /\ trigger_pc' = "none"
    /\ UNCHANGED <<svc_called, svc, is_inside_intr_hook, uc, cpu_call,
                   trapped, tvars>>

\* lines 261-265: stop(), called on its own
Stop ==
    /\ cpu_call.at # "aborted"
    /\ uc' = stop(uc)
    /\ UNCHANGED <<did_break, svc_called, svc, is_inside_intr_hook, cpu_call,
                   trapped, trigger_pc, tvars>>

NextCPU ==
    \/ Run
    \/ RunReturn
    \/ Step
    \/ StepReturn
    \/ ExecuteInstructionsNoCheck
    \/ ExecuteInstructionsNoCheckReturn
    \/ GuestInstruction
    \/ IntrHookEnter
    \/ IntrHookBody
    \/ TriggerBreakpoint
    \/ TriggerBreakpointReturn
    \/ Stop

----------------------------------------------------------------------------
(* The translator *)

\* The handlers keep no state of their own between two calls: what a call
\* leaves behind is the instructions it appended to the module.  The
\* variables describe the handler call under way: call is the call and
\* its decoded fields ("none" between two calls), ir the instructions and
\* operand model calls it appended to the module, fetches the calls it
\* made to do_fetch_texture, inst its Instruction, log the errors it
\* logged and ret the value it returned.

Idle == call = [handler |-> "none"]

Init ==
    /\ samplers \in SamplerTables
    /\ call = [handler |-> "none"]
    /\ ir = <<>>
    /\ fetches = <<>>
    /\ inst = <<>>
    /\ log = <<>>
    /\ ret = "none"
    /\ CpuInit

\* one SMP instruction is translated
Smp ==
    /\ Idle
    /\ \E f \in SmpFields, ok \in LoadOutcomes, cur_pc \in CurPcs :
        \E r \in {smp(samplers, f, ok, cur_pc)} :
            /\ call' = [handler |-> "smp", f |-> f, cur_pc |-> cur_pc]
            /\ ir' = r.b
            /\ fetches' = r.fetches
            /\ inst' = r.inst
            /\ log' = r.log
            /\ ret' = r.ret
            /\ UNCHANGED <<samplers, cpuvars>>

\* the non dependent texture queries of a program are translated
DoTextureQueries ==
    /\ Idle
    /\ \E qs \in TextureQueryLists :
        \E r \in {do_texture_queries(qs)} :
            /\ call' = [handler |-> "do_texture_queries",
                        texture_queries |-> qs]
            /\ ir' = r.b
            /\ fetches' = r.fetches
            /\ inst' = <<>>
            /\ log' = <<>>
            /\ ret' = "void"
            /\ UNCHANGED <<samplers, cpuvars>>

\* the recompiler goes on to the next instruction, whatever the handler
\* returned: the instructions appended stay in the module, the locals of
\* the call are gone
NextInstruction ==
    /\ ~Idle
    /\ call' = [handler |-> "none"]
    /\ ir' = <<>>
    /\ fetches' = <<>>
    /\ inst' = <<>>
    /\ log' = <<>>
    /\ ret' = "none"
    /\ UNCHANGED <<samplers, cpuvars>>

Next == Smp \/ DoTextureQueries \/ NextInstruction

Spec == Init /\ [][Next]_vars

\* the CPU wrapper at work: the calls made to it, the guest instructions
\* the engine executes and the interrupts it traps
SpecCPU == Init /\ [][NextCPU]_vars

----------------------------------------------------------------------------
(* Observations on the handler call under way *)

IsSmp == call.handler = "smp"

IsQueries == call.handler = "do_texture_queries"

\* the entries of the stream whose op is in the set S, in stream order
Entries(S) == SelectSeq(ir, LAMBDA e : e.op \in S)

\* positions of the entries of a kind
Positions(S) == {i \in 1..Len(ir) : ir[i].op \in S}

\* the SMP call went past the LOD mode check, found its sampler and loaded
\* its coordinate: it called the fetch emitter
SmpFetched == IsSmp /\ fetches # <<>>

\* position in the stream of the coordinate load of an SMP call: it comes
\* right after the setLine of line 180
CoordLoadAt == 2

\* the coordinate load of the SMP call returned spv::NoResult
CoordLoadFailed ==
    /\ IsSmp
    /\ Len(ir) >= CoordLoadAt
    /\ ir[CoordLoadAt].op = "load"
    /\ ir[CoordLoadAt].res = NoResult

----------------------------------------------------------------------------
(* C1 *)

\* C1: an SMP translation whose lod_mode is 1 (BIAS) appends nothing to the
\* module, makes no load, no store and no fetch, logs an error and returns
\* true, whatever the other fields and the sampler table are.
C1_BiasIsNoOp ==
    (IsSmp /\ call.f.lod_mode = 1) =>
        /\ ir = <<>>
        /\ fetches = <<>>
        /\ Len(log) = 1
        /\ ret = "true"

\* a BIAS sample of a bound sampler has been translated
C1_Witness ==
    /\ IsSmp
    /\ call.f.lod_mode = 1
    /\ call.f.src1_n \in DOMAIN samplers
    /\ ret = "true"

----------------------------------------------------------------------------
(* C2 *)

C2_Miss ==
    /\ IsSmp
    /\ call.f.lod_mode \in {0, 2, 3}
    /\ inst.src1.num \notin DOMAIN samplers

\* C2: an SMP translation with a supported lod_mode whose decoded source 1
\* index is not a key of the sampler table logs the miss, appends nothing
\* (no load, no sampling op, no store), returns true, and no step of the
\* translator changes the sampler table.
C2_UnboundSamplerEmitsNothing ==
    /\ [](C2_Miss =>
            /\ ir = <<>>
            /\ fetches = <<>>
            /\ log = <<"Can't get the sampler (sampler doesn't exist!)">>
            /\ ret = "true")
    /\ [][samplers' = samplers]_vars

\* a lookup miss happened while the table binds another index
C2_Witness ==
    /\ C2_Miss
    /\ DOMAIN samplers # {}
    /\ ir = <<>>

----------------------------------------------------------------------------
(* C3 *)

\* C3: when the load of the coordinate returns the no result sentinel the
\* translation of the instruction stops there: the stream holds the line
\* set, that load and nothing else (no load of the LOD source, no sampling
\* op, no store),
\* the fetch emitter is not called, the error is logged and the recompiler
\* can go on to the next instruction.
C3_CoordFailureStopsInstruction ==
    CoordLoadFailed =>
        /\ Len(ir) = CoordLoadAt
        /\ ir[1] = [op |-> "setLine", line |-> call.cur_pc, res |-> NoResult]
        /\ Positions(SamplingOps) = {}
        /\ Positions({"store"}) = {}
        /\ fetches = <<>>
        /\ "src2" \notin DOMAIN inst
        /\ log = <<"Coord not loaded">>
        /\ ENABLED NextInstruction

\* the coordinate load failed in a gradient sample, which would have loaded
\* source 2 and stored a result
C3_Witness ==
    /\ CoordLoadFailed
    /\ call.f.lod_mode = 3
    /\ call.f.sb_mode = 0
    /\ ret = "false"

----------------------------------------------------------------------------
(* C4 *)

\* C4: whenever the fetch emitter is reached the sampling opcode follows
\* from the LOD mode alone: NONE gives the implicit LOD sample (projective
\* exactly when the query has a prod_pos), REPLACE the explicit LOD sample
\* with the scalar LOD operand, GRADIENT the explicit gradient sample with
\* two gradient operands; for every dim in 0..3 and every outcome of the
\* loads of the extra operands.
C4_OpcodeFollowsLodMode ==
    /\ SmpFetched =>
        LET s == Entries(SamplingOps)
        IN  /\ Len(s) = 1
            /\ call.f.lod_mode = 0 => s[1].op = "OpImageSampleImplicitLod"
            /\ call.f.lod_mode = 2 =>
                /\ s[1].op = "OpImageSampleExplicitLod"
                /\ Len(s[1].args) = 4
                /\ s[1].args[3] = ImageOperandsLodMask
            /\ call.f.lod_mode = 3 =>
                /\ s[1].op = "OpImageSampleExplicitLod"
                /\ Len(s[1].args) = 5
                /\ s[1].args[3] = ImageOperandsGradMask
    /\ IsQueries =>
        LET s == Entries(SamplingOps)
            qs == call.texture_queries
        IN  /\ Len(s) = Len(qs)
            /\ \A i \in 1..Len(qs) :
                s[i].op = IF qs[i].prod_pos >= 0
                          THEN "OpImageSampleProjImplicitLod"
                          ELSE "OpImageSampleImplicitLod"

----------------------------------------------------------------------------
(* C5 *)

\* C5: an SMP translation that passes validation with sb_mode 0, 1 or 3
\* appends exactly one sampling op and, after it, exactly one store: the
\* store is the last entry of the stream, writes the destination operand,
\* its value is the result of the sampling op and its mask is
\* (1 << component_count) - 1 of the bound sampler.
C5_OneSampleThenOneStore ==
    (SmpFetched /\ call.f.sb_mode \in {0, 1, 3}) =>
        LET n == Len(ir)
            c == samplers[inst.src1.num].component_count
        IN  /\ Cardinality(Positions(SamplingOps)) = 1
            /\ Positions({"store"}) = {n}
            /\ \A i \in Positions(SamplingOps) :
                /\ i < n
                /\ ir[n].value = ir[i].res
            /\ ir[n].opr = inst.dest
            /\ ir[n].mask = CASE c = 1 -> 1 [] c = 2 -> 3 [] c = 3 -> 7
                              [] c = 4 -> 15

\* a sample with sb_mode 3 of a sampler of 3 components was stored with
\* mask 0b0111
C5_Witness ==
    /\ SmpFetched
    /\ call.f.sb_mode = 3
    /\ ir[Len(ir)].op = "store"
    /\ ir[Len(ir)].mask = 7
    /\ ir[Len(ir)].value # NoResult

----------------------------------------------------------------------------
(* C6 *)

\* C6: in every SMP translation that reaches IR emission the element type
\* of the destination is concrete: fconv_type 0, 2, 3 give F32, F16, F32,
\* fconv_type 1 gives the component type of the bound sampler, and the
\* type is never UNK, for every binding of the sampler table.
C6_DestTypeConcrete ==
    SmpFetched =>
        /\ call.f.fconv_type = 0 => inst.dest.type = "F32"
        /\ call.f.fconv_type = 2 => inst.dest.type = "F16"
        /\ call.f.fconv_type = 3 => inst.dest.type = "F32"
        /\ call.f.fconv_type = 1 =>
            inst.dest.type = samplers[inst.src1.num].component_type
        /\ inst.dest.type # "UNK"

----------------------------------------------------------------------------
(* C7 *)

\* C7: the coordinate is loaded from source 0 with mask 0b0001, 0b0011,
\* 0b0111 for dim 0, 1, 2; and the coordinate a 1D sample hands to the
\* fetch emitter is a 2 component vector built from the loaded value and
\* the float constant 0.0, under every LOD mode.
C7_CoordMaskAndZeroY ==
    (IsSmp /\ "dest" \in DOMAIN inst) =>
        /\ ir[CoordLoadAt].op = "load"
        /\ ir[CoordLoadAt].opr = inst.src0
        /\ ir[CoordLoadAt].offset = 0
        /\ call.f.dim = 0 => ir[CoordLoadAt].mask = 1
        /\ call.f.dim = 1 => ir[CoordLoadAt].mask = 3
        /\ call.f.dim = 2 => ir[CoordLoadAt].mask = 7
        /\ (SmpFetched /\ call.f.dim = 0) =>
            LET c == fetches[1].coord_id
            IN  /\ c[1] = "id"
                /\ ir[c[2]].op = "OpCompositeConstruct"
                /\ ir[c[2]].ncomp = 2
                /\ ir[c[2]].args = <<ir[CoordLoadAt].res, FloatConstantZero>>

\* a 1D sample with gradients went through the fetch emitter
C7_Witness ==
    /\ SmpFetched
    /\ call.f.dim = 0
    /\ call.f.lod_mode = 3
    /\ ir[CoordLoadAt].mask = 1

----------------------------------------------------------------------------
(* C8 *)

\* the SMP call got as far as the switch on sb_mode with sb_mode 2
C8_Reached ==
    /\ IsSmp
    /\ call.f.sb_mode = 2
    /\ call.f.lod_mode \in {0, 2, 3}
    /\ "dest" \in DOMAIN inst
    /\ ~CoordLoadFailed

\* C8: an SMP translation with sb_mode 2 logs the unsupported sideband
\* mode and is a no-op: no sampling op is emitted, nothing is stored, and
\* smp returns true.
C8_UnsupportedSidebandIsNoOp ==
    C8_Reached =>
        /\ log = <<"Unsupported sb_mode">>
        /\ Positions(SamplingOps) = {}
        /\ Positions({"store"}) = {}
        /\ ret = "true"

----------------------------------------------------------------------------
(* C9 *)

\* C9: source 2 is decoded and loaded only when lod_mode is not NONE, and
\* the loads made after the coordinate load follow from lod_mode and the
\* dimensionality alone, whatever they return: none for NONE; one scalar
\* (mask 0b0001) for REPLACE, also for a 1D sample; masks 0b0011 and
\* 0b1100 for GRADIENT of a 1D or 2D sample; mask 0b0111 at offsets 0 and
\* 1 for GRADIENT of a 3D sample; all of them from the source 2 operand.
C9_ExtraLoadsFollowLodAndDim ==
    SmpFetched =>
        LET extra == Tail(Entries({"load"}))
            shape == [i \in 1..Len(extra) |->
                        <<extra[i].mask, extra[i].offset>>]
        IN  /\ ("src2" \in DOMAIN inst) <=> (call.f.lod_mode # 0)
            /\ \A i \in 1..Len(extra) : extra[i].opr = inst.src2
            /\ call.f.lod_mode = 0 => shape = <<>>
            /\ call.f.lod_mode = 2 => shape = << <<1, 0>> >>
            /\ (call.f.lod_mode = 3 /\ call.f.dim \in {0, 1}) =>
                shape = << <<3, 0>>, <<12, 0>> >>
            /\ (call.f.lod_mode = 3 /\ call.f.dim = 2) =>
                shape = << <<7, 0>>, <<7, 1>> >>

\* a 3D sample with gradients made its two overlapping loads
C9_Witness ==
    /\ SmpFetched
    /\ call.f.lod_mode = 3
    /\ call.f.dim = 2
    /\ Len(Entries({"load"})) = 3

----------------------------------------------------------------------------
(* C10 *)

\* the results of the convert_to_int entries of the stream
ConvertedValues == {ir[i].res : i \in Positions({"convert_to_int"})}

\* C10: both handlers call the fetch emitter with the resolved element
\* type of the destination, so that a value stored into a destination of
\* an integer type is the converted sample.
C10_FetchGetsDestType ==
    /\ SmpFetched =>
        /\ fetches[1].dest_type = inst.dest.type
        /\ \A i \in Positions({"store"}) :
            is_integer_data_type(ir[i].opr.type) =>
                ir[i].value \in ConvertedValues
    /\ IsQueries =>
        /\ \A i \in 1..Len(fetches) :
            fetches[i].dest_type = StoreType(call.texture_queries[i])
        /\ \A i \in Positions({"store"}) :
            is_integer_data_type(ir[i].opr.type) =>
                ir[i].value \in ConvertedValues

----------------------------------------------------------------------------
(* C11 *)

\* position in the stream of the i-th entry whose op is in S
NthPosition(S, i) ==
    CHOOSE p \in Positions(S) :
        Cardinality({r \in Positions(S) : r <= p}) = i

\* C11: do_texture_queries evaluates every record of a list of N records,
\* in list order: the stream holds exactly N sampling ops and N stores, the
\* i-th store comes after the i-th sampling op and before the (i+1)-th,
\* and the i-th store writes the primary attribute bank at the dest_offset
\* of the i-th record, with mask (1 << component_count) - 1 and with the
\* element type store_type, or component_type where store_type is UNK.
C11_QueriesInListOrder ==
    IsQueries =>
        LET qs == call.texture_queries
            N == Len(qs)
        IN  /\ Cardinality(Positions(SamplingOps)) = N
            /\ Cardinality(Positions({"store"})) = N
            /\ Len(fetches) = N
            /\ \A i \in 1..N :
                LET smp_i == NthPosition(SamplingOps, i)
                    st_i == NthPosition({"store"}, i)
                IN  /\ smp_i < st_i
                    /\ i < N => st_i < NthPosition(SamplingOps, i + 1)
                    /\ ir[smp_i].args[1] = ir[smp_i - 1].res
                    /\ ir[smp_i - 1].op = "OpLoad"
                    /\ ir[smp_i - 1].args = <<qs[i].sampler>>
                    /\ ir[st_i].opr.bank = PRIMATTR
                    /\ ir[st_i].opr.num = qs[i].dest_offset
                    /\ ir[st_i].opr.swizzle = SWIZZLE_CHANNEL_4_DEFAULT
                    /\ ir[st_i].opr.type =
                        IF qs[i].store_type = "UNK"
                        THEN qs[i].component_type
                        ELSE qs[i].store_type
                    /\ ir[st_i].mask = CASE qs[i].component_count = 1 -> 1
                                         [] qs[i].component_count = 2 -> 3
                                         [] qs[i].component_count = 3 -> 7
                                         [] qs[i].component_count = 4 -> 15

\* two records that differ in offset, element type and component count
\* were evaluated, the first typed by its hint, and both were stored
C11_Witness ==
    /\ IsQueries
    /\ Len(call.texture_queries) = 2
    /\ call.texture_queries[1].store_type = "UNK"
    /\ call.texture_queries[2].store_type = "F32"
    /\ call.texture_queries[1].dest_offset = 4
    /\ call.texture_queries[2].dest_offset = 0
    /\ call.texture_queries[1].component_count = 2
    /\ call.texture_queries[2].component_count = 4
    /\ Cardinality(Positions({"store"})) = 2
    /\ ir[Len(ir)].op = "store"
    /\ ir[Len(ir)].opr.num = 0
    /\ ir[Len(ir)].opr.type = "F32"
    /\ \E p \in Positions({"store"}) : ir[p].opr.type = "UINT8"

----------------------------------------------------------------------------
(* C12 *)

\* C12: no call of the fetch emitter made by smp or do_texture_queries has
\* a LOD operand (extra1 other than spv::NoResult) with a lod_mode other
\* than 2 (REPLACE) or 3 (GRADIENT); so every call of the fetch emitter
\* appends a sampling op, whose result is the sample, and no store is
\* handed spv::NoResult as its value.
C12_DefensiveCaseUnreachable ==
    /\ \A i \in 1..Len(fetches) :
        /\ fetches[i].extra1 # NoResult => fetches[i].lod_mode \in {2, 3}
        /\ fetches[i].sample # NoResult
        /\ \E p \in Positions(SamplingOps) : ir[p].res = fetches[i].sample
    /\ Cardinality(Positions(SamplingOps)) = Len(fetches)
    /\ \A p \in Positions({"store"}) : ir[p].value # NoResult

\* a REPLACE sample whose LOD operand was loaded has been emitted and its
\* result stored
C12_Witness ==
    /\ SmpFetched
    /\ call.f.lod_mode = 2
    /\ fetches[1].extra1 # NoResult
    /\ fetches[1].lod_mode = 2
    /\ ir[Len(ir)].op = "store"
    /\ ir[Len(ir)].value = fetches[1].sample
    /\ ir[Len(ir) - 1].op = "OpImageSampleExplicitLod"

----------------------------------------------------------------------------
(* C13 *)

\* C13: the break and system call flags do not leak from one execution to
\* the next.  run() and step() start the emulation with did_break and
\* svc_called cleared; when run() or step() returns, hit_breakpoint() is
\* true only if a BKPT was trapped or trigger_breakpoint() was called
\* during that call, and svc_called is true only if an SVC was trapped
\* during that call, svc being the immediate of that instruction; once an
\* SVC or a BKPT was trapped the engine has been asked to stop and executes
\* no further instruction of that call; is_inside_intr_hook is false
\* whenever the hook is not executing.
C13_FlagsDoNotLeak ==
    /\ [](cpu_call.at \in {"returned", "emulating"} =>
            ~is_inside_intr_hook)
    /\ []((Emulating /\ (trapped.svc \/ trapped.bkpt)) => uc.stop_request)
    /\ [][(Emulating /\ (trapped.svc \/ trapped.bkpt)) =>
            (uc'.executed = uc.executed /\ cpu_call'.at # "intr_hook")]_vars
    /\ [][(Returned /\ cpu_call'.at = "emulating"
                /\ cpu_call'.fn \in {"run", "step"}) =>
            (~did_break' /\ ~svc_called')]_vars
    /\ [][(Emulating /\ cpu_call'.at = "returned"
                /\ cpu_call.fn \in {"run", "step"}) =>
            /\ hit_breakpoint' => (trapped'.bkpt \/ trapped'.trigger)
            /\ svc_called' => (trapped'.svc /\ svc' = trapped'.imm)]_vars

====
